---- MODULE Spec2Model ----
(***************************************************************************)
(* A model of pinpayments/models.py: the PinTransaction charge flow        *)
(* (save, process_transaction), PinRecipient.create_with_bank_account,     *)
(* PinTransfer.send_new and CustomerToken.update_card.                     *)
(*                                                                         *)
(* Python values are modelled as follows.  None is the string "None".      *)
(* A Decimal is an integer number of thousandths (DecScale), so that       *)
(* 19.99 is 19990 and the conversions the code performs (x 100, / 100,     *)
(* int(), the two-place rounding of a DecimalField column) are computed.   *)
(* A JSON body is a string; the parsed dict is a TLA+ function whose       *)
(* DOMAIN is the dict's keys.  A Python list index i is i + 1 here.        *)
(***************************************************************************)
EXTENDS Integers, Sequences, FiniteSets, TLC

VARIABLES
    active,        \* the callers (threads of control) that exist
    pc,            \* pc[c]: where caller c stands in process_transaction
    obj,           \* obj[c]: caller c's in-memory PinTransaction instance
    result,        \* result[c]: outcome of c's last call (return or raise)
    tx_table,      \* the stored PinTransaction rows, row i has pk i
    posts,         \* every POST issued to the gateway, in order
    puts,          \* every PUT issued to the gateway, in order
    customers,     \* the stored CustomerToken rows
    bank_accounts, \* the stored BankAccount rows
    recipients,    \* the stored PinRecipient rows
    transfers,     \* the stored PinTransfer rows
    outcome        \* outcome of the last classmethod / customer call

vars == <<active, pc, obj, result, tx_table, posts, puts, customers,
          bank_accounts, recipients, transfers, outcome>>

txvars == <<active, pc, obj, result, tx_table>>
othervars == <<puts, customers, bank_accounts, recipients, transfers, outcome>>

(***************************************************************************)
(* Bounds of the model.                                                    *)
(***************************************************************************)
MaxTx == 1
MaxPosts == 2

Callers == {1, 2}

(***************************************************************************)
(* Python values.                                                          *)
(***************************************************************************)
None == "None"

\* bool(s) of a str-or-None value
Truthy(s) == s # None /\ s # ""

DecScale == 1000

DecFromInt(n) == n * DecScale

Abs(n) == IF n < 0 THEN 0 - n ELSE n

Sign(n) == IF n < 0 THEN 0 - 1 ELSE 1

\* Decimal * Decimal
DecMul(a, b) == Sign(a) * Sign(b) * ((Abs(a) * Abs(b)) \div DecScale)

\* Decimal / Decimal
DecDiv(a, b) == Sign(a) * Sign(b) * ((Abs(a) * DecScale) \div Abs(b))

\* int(Decimal): truncation towards zero
DecToInt(d) == Sign(d) * (Abs(d) \div DecScale)

\* The value a DecimalField(decimal_places=2) column holds: the Decimal
\* quantized to two places, rounding half to even.
Quantize2(d) ==
    LET step == DecScale \div 100
        q    == Abs(d) \div step
        r    == Abs(d) % step
        up   == (2 * r > step) \/ (2 * r = step /\ q % 2 = 1)
    IN  Sign(d) * (IF up THEN q + 1 ELSE q) * step

(***************************************************************************)
(* django.conf.settings: one deployment's configuration.  "test" is a      *)
(* complete environment, "staging" is configured without key and host.     *)
(***************************************************************************)
PIN_ENVIRONMENTS ==
    [test    |-> [key |-> "sk_test", host |-> "test-api.pin.net.au"],
     staging |-> [key |-> "", host |-> ""]]

\* getattr(settings, 'PIN_DEFAULT_ENVIRONMENT', 'test')
PIN_DEFAULT_ENVIRONMENT == "test"

\* PinEnvironment(name): the resolver raises ConfigError for a name that is
\* not configured or whose entry lacks secret and host.
PinEnvironment(name) ==
    LET n == IF Truthy(name) THEN name ELSE PIN_DEFAULT_ENVIRONMENT
    IN  IF n \notin DOMAIN PIN_ENVIRONMENTS
        THEN [exc |-> "ConfigError", name |-> n]
        ELSE IF PIN_ENVIRONMENTS[n].key = "" /\ PIN_ENVIRONMENTS[n].host = ""
        THEN [exc |-> "ConfigError", name |-> n]
        ELSE [exc |-> None, name |-> n]

(***************************************************************************)
(* The gateway.  A response is its body text; response.json() is JsonOf.   *)
(***************************************************************************)
NoJson == [none_value |-> TRUE]

CardJson ==
    [address_line1 |-> "1 Main St", address_line2 |-> "Unit 2",
     address_city |-> "Perth", address_state |-> "WA",
     address_postcode |-> "6000", address_country |-> "Australia",
     display_number |-> "XXXX-XXXX-XXXX-0000", scheme |-> "visa",
     name |-> "Roland Robot"]

ChargeOk(fees) ==
    [response |-> [token |-> "ch_1", total_fees |-> fees,
                   status_message |-> "Success!", card |-> CardJson]]

\* The charge bodies the gateway is made to answer with.
ChargeBodies ==
    {"<html>502</html>", "ok_fees_250", "ok_fees_0", "ok_fees_37",
     "err_desc", "err_msg", "err_msg_token", "err_desc_token",
     "err_msg_nomessage", "err_msg_empty", "err_only"}

JsonOf(text) ==
    CASE text = "ok_fees_250" -> ChargeOk(250)
      [] text = "ok_fees_0" -> ChargeOk(0)
      [] text = "ok_fees_37" -> ChargeOk(37)
      [] text = "err_desc" ->
            [error |-> "x", error_description |-> "bad card"]
      [] text = "err_desc_token" ->
            [error |-> "x", error_description |-> "bad card",
             charge_token |-> "ch_9"]
      [] text = "err_msg" ->
            [error |-> "invalid_resource",
             error_description |-> "One or more parameters were invalid",
             messages |-> << [code |-> "number_invalid",
                              message |-> "A valid card number is required",
                              param |-> "number"] >>]
      [] text = "err_msg_token" ->
            [error |-> "card_declined",
             error_description |-> "The card was declined",
             charge_token |-> "ch_9",
             messages |-> << [code |-> "card_declined",
                              message |-> "Declined by the bank"] >>]
      [] text = "err_msg_nomessage" ->
            [error |-> "x", error_description |-> "bad card",
             messages |-> << [code |-> "number_invalid"] >>]
      [] text = "err_msg_empty" ->
            [error |-> "x", error_description |-> "bad card",
             messages |-> << >>]
      [] text = "err_only" -> [error |-> "x"]
      [] OTHER -> NoJson

\* pin_env.pin_post(url_tail, payload, is_payment): the pair
\* (response, response_json); response_json is None (NoJson) when the body
\* is not JSON.
pin_post(text) == <<[text |-> text], JsonOf(text)>>

\* str.format on a template that is a literal followed by one replacement
\* field {field}: positional argument number field (counted from 0) is
\* looked up, and a field beyond the arguments raises IndexError.
StrFormat(template, args) ==
    IF template.field + 1 > Len(args)
    THEN [exc |-> "IndexError", value |-> None]
    ELSE [exc |-> None, value |-> template.literal \o args[template.field + 1]]

\* dict.get(key, default)
DictGet(d, key, default) == IF key \in DOMAIN d THEN d[key] ELSE default

(***************************************************************************)
(* PinTransaction.                                                         *)
(***************************************************************************)
NoCustomer == 0

\* PinTransaction(**kwargs): the field defaults of the model class, with
\* the fields the caller supplies.  id 0 is an instance never saved.
NewTransaction(kw) ==
    [id |-> 0, date |-> None, environment |-> kw.environment,
     amount |-> kw.amount, fees |-> 0, description |-> "Widgets",
     processed |-> FALSE, succeeded |-> FALSE, currency |-> "AUD",
     transaction_token |-> None, card_token |-> kw.card_token,
     customer_token |-> kw.customer_token, pin_response |-> None,
     ip_address |-> "127.0.0.1", email_address |-> "test@example.com",
     card_address1 |-> None, card_address2 |-> None, card_city |-> None,
     card_state |-> None, card_postcode |-> None, card_country |-> None,
     card_number |-> None, card_type |-> None, pin_response_text |-> None]

\* The constructor arguments callers use: the token fields present, absent
\* or both, the environment names, and amounts of two and three places.
TransactionArgs ==
    { [card_token |-> "card_1", customer_token |-> NoCustomer,
       environment |-> "test", amount |-> 19990],
      [card_token |-> None, customer_token |-> 1,
       environment |-> "", amount |-> 500],
      [card_token |-> "card_1", customer_token |-> NoCustomer,
       environment |-> "", amount |-> 19999],
      [card_token |-> None, customer_token |-> NoCustomer,
       environment |-> "test", amount |-> 19990],
      [card_token |-> "", customer_token |-> NoCustomer,
       environment |-> "test", amount |-> 500],
      [card_token |-> "card_1", customer_token |-> 1,
       environment |-> "test", amount |-> 19990],
      [card_token |-> "card_1", customer_token |-> NoCustomer,
       environment |-> "bogus", amount |-> 500],
      [card_token |-> None, customer_token |-> 1,
       environment |-> "staging", amount |-> 19995] }

\* save's first check: neither card_token nor customer_token.
TokensMissing(self) ==
    ~(Truthy(self.card_token) \/ self.customer_token # NoCustomer)

\* A save that never refuses an instance holding both tokens.
TokensBoth_Unchecked(self) == FALSE

\* save's second check: card_token and customer_token together.
TokensBoth(self) ==
    Truthy(self.card_token) /\ self.customer_token # NoCustomer

\* A save that never refuses an environment name.
EnvironmentUnknown_Unchecked(self) == FALSE

\* save's third check: the environment is not one of PIN_ENVIRONMENTS.
EnvironmentUnknown(self) == self.environment \notin DOMAIN PIN_ENVIRONMENTS

\* PinTransaction.save up to the call of Model.save: the exception raised
\* (None when it reaches Model.save) and the instance as the method leaves
\* it.
PinTransaction_save(self) ==
    LET env == IF ~Truthy(self.environment)
               THEN [self EXCEPT !.environment = PIN_DEFAULT_ENVIRONMENT]
               ELSE self
        dated == IF ~Truthy(env.date) THEN [env EXCEPT !.date = "now"] ELSE env
    IN  IF TokensMissing(self)
        THEN [exc |-> "PinError", self |-> self]
        ELSE IF TokensBoth(self)
        THEN [exc |-> "PinError", self |-> self]
        ELSE IF EnvironmentUnknown(env)
        THEN [exc |-> "PinError", self |-> env]
        ELSE [exc |-> None, self |-> dated]

\* The row Model.save writes for an instance: DecimalField columns hold
\* two places.
RowOf(self, pk) ==
    [self EXCEPT !.id = pk, !.amount = Quantize2(self.amount),
                 !.fees = Quantize2(self.fees)]

\* Model.save on the table: INSERT for an instance without pk, UPDATE of
\* its row otherwise.
TableAfterSave(table, self) ==
    IF self.id = 0
    THEN Append(table, RowOf(self, Len(table) + 1))
    ELSE [table EXCEPT ![self.id] = RowOf(self, self.id)]

PkAfterSave(table, self) == IF self.id = 0 THEN Len(table) + 1 ELSE self.id

\* Model.save can run: an INSERT needs room in the bounded table.
CanStore(table, self) == self.id # 0 \/ Len(table) < MaxTx

\* A payload amount that is not scaled to minor units.
ChargeAmount_Unscaled(self) == DecToInt(self.amount)

\* The charge payload of process_transaction: int(self.amount * 100).
ChargeAmount(self) == DecToInt(DecMul(self.amount, DecFromInt(100)))

ChargePayload(self) ==
    LET base == [email |-> self.email_address,
                 description |-> self.description,
                 amount |-> ChargeAmount(self),
                 currency |-> self.currency,
                 ip_address |-> self.ip_address]
    IN  IF Truthy(self.card_token)
        THEN [card_token |-> self.card_token] @@ base
        ELSE [customer_token |-> customers[self.customer_token].token] @@ base

\* 'Failure: {0}'.format(text)
FailureFormat(text) ==
    StrFormat([literal |-> "Failure: ", field |-> 0], <<text>>).value

\* Fees taken as dollars without the division.
FeesOf_Undivided(total_fees) == DecFromInt(total_fees)

\* data['total_fees'] / Decimal("100.00")
FeesOf(total_fees) == DecDiv(DecFromInt(total_fees), DecFromInt(100))

\* process_transaction from the response to the last save: the exception
\* raised (None when it reaches the save) and the instance at that point.
InterpretCharge(self, response, response_json) ==
    LET s0 == [self EXCEPT !.pin_response_text = response.text]
        echo(s) == [s EXCEPT !.transaction_token =
                                 DictGet(response_json, "charge_token", None)]
        data == response_json.response
    IN  IF response_json = NoJson
        THEN [exc |-> None, self |-> [s0 EXCEPT !.pin_response = "Failure."]]
        ELSE IF "error" \in DOMAIN response_json
        THEN IF "messages" \in DOMAIN response_json
             THEN IF Len(response_json.messages) = 0
                  THEN [exc |-> "IndexError", self |-> s0]
                  ELSE IF "message" \in DOMAIN response_json.messages[1]
                  THEN [exc |-> None,
                        self |-> echo([s0 EXCEPT !.pin_response =
                            FailureFormat(response_json.messages[1].message)])]
                  ELSE [exc |-> None, self |-> echo(s0)]
             ELSE IF "error_description" \in DOMAIN response_json
                  THEN [exc |-> None,
                        self |-> echo([s0 EXCEPT !.pin_response =
                            FailureFormat(response_json.error_description)])]
                  ELSE [exc |-> "KeyError", self |-> s0]
        ELSE [exc |-> None,
              self |-> [s0 EXCEPT
                  !.succeeded = TRUE,
                  !.transaction_token = data.token,
                  !.fees = FeesOf(data.total_fees),
                  !.pin_response = data.status_message,
                  !.card_address1 = data.card.address_line1,
                  !.card_address2 = data.card.address_line2,
                  !.card_city = data.card.address_city,
                  !.card_state = data.card.address_state,
                  !.card_postcode = data.card.address_postcode,
                  !.card_country = data.card.address_country,
                  !.card_number = data.card.display_number,
                  !.card_type = data.card.scheme]]

(***************************************************************************)
(* Callers of PinTransaction.  pc[c] is "none" (c holds no instance),      *)
(* "idle" (c holds one, no call running), "marked" (process_transaction    *)
(* has saved processed=True) or "posted" (the charge POST is out).         *)
(***************************************************************************)
NoResult == [op |-> "", kind |-> "", value |-> ""]

Return(op, value) == [op |-> op, kind |-> "return", value |-> value]

Raise(op, exc) == [op |-> op, kind |-> "raise", value |-> exc]

BlankTx ==
    NewTransaction([card_token |-> None, customer_token |-> NoCustomer,
                    environment |-> "", amount |-> 0])

\* The CustomerToken row the transactions refer to.
Customer1 == [id |-> 1, environment |-> "test", token |-> "cus_1",
              active |-> TRUE, cards |-> {}]

\* c constructs a PinTransaction.
New(c, kw) ==
    /\ c \in active
    /\ pc[c] = "none"
    /\ obj' = [obj EXCEPT ![c] = NewTransaction(kw)]
    /\ pc' = [pc EXCEPT ![c] = "idle"]
    /\ result' = [result EXCEPT ![c] = NoResult]
    /\ UNCHANGED <<active, tx_table, posts, othervars>>

\* c fetches the stored row pk: PinTransaction.objects.get(pk=pk).
Load(c, pk) ==
    /\ c \in active
    /\ pc[c] = "none"
    /\ pk \in 1..Len(tx_table)
    /\ obj' = [obj EXCEPT ![c] = tx_table[pk]]
    /\ pc' = [pc EXCEPT ![c] = "idle"]
    /\ result' = [result EXCEPT ![c] = NoResult]
    /\ UNCHANGED <<active, tx_table, posts, othervars>>

\* c calls save() on its instance.
Save(c) ==
    LET sv == PinTransaction_save(obj[c])
    IN  /\ c \in active
        /\ pc[c] = "idle"
        /\ IF sv.exc # None
           THEN /\ obj' = [obj EXCEPT ![c] = sv.self]
                /\ result' = [result EXCEPT ![c] = Raise("save", sv.exc)]
                /\ UNCHANGED tx_table
           ELSE /\ CanStore(tx_table, sv.self)
                /\ tx_table' = TableAfterSave(tx_table, sv.self)
                /\ obj' = [obj EXCEPT ![c] =
                       [sv.self EXCEPT !.id = PkAfterSave(tx_table, sv.self)]]
                /\ result' = [result EXCEPT ![c] = Return("save", None)]
        /\ UNCHANGED <<active, pc, posts, othervars>>

\* A guard that lets every call through.
AlreadyProcessed_Ignored(self) == FALSE

\* A guard that consults the stored row as well as the instance.
AlreadyProcessed_Refreshed(self) ==
    \/ self.processed
    \/ /\ self.id \in DOMAIN tx_table
       /\ tx_table[self.id].processed

\* process_transaction's guard: if self.processed: return None
AlreadyProcessed(self) == self.processed

\* A call that goes on without setting the flag.
MarkProcessed_Forgotten(self) == self

\* self.processed = True
MarkProcessed(self) == [self EXCEPT !.processed = TRUE]

\* process_transaction, from its call to the first save.
ProcessBegin(c) ==
    LET marked == MarkProcessed(obj[c])
        sv     == PinTransaction_save(marked)
    IN  /\ c \in active
        /\ pc[c] = "idle"
        /\ IF AlreadyProcessed(obj[c])
           THEN /\ result' = [result EXCEPT ![c] =
                                  Return("process_transaction", None)]
                /\ UNCHANGED <<obj, pc, tx_table>>
           ELSE IF sv.exc # None
           THEN /\ obj' = [obj EXCEPT ![c] = sv.self]
                /\ result' = [result EXCEPT ![c] =
                                  Raise("process_transaction", sv.exc)]
                /\ UNCHANGED <<pc, tx_table>>
           ELSE /\ CanStore(tx_table, sv.self)
                /\ tx_table' = TableAfterSave(tx_table, sv.self)
                /\ obj' = [obj EXCEPT ![c] =
                       [sv.self EXCEPT !.id = PkAfterSave(tx_table, sv.self)]]
                /\ pc' = [pc EXCEPT ![c] = "marked"]
                /\ result' = [result EXCEPT ![c] = NoResult]
        /\ UNCHANGED <<active, posts, othervars>>

\* process_transaction, from the first save to the POST going out.
ProcessPost(c) ==
    LET pin_env == PinEnvironment(obj[c].environment)
    IN  /\ c \in active
        /\ pc[c] = "marked"
        /\ IF pin_env.exc # None
           THEN /\ pc' = [pc EXCEPT ![c] = "idle"]
                /\ result' = [result EXCEPT ![c] =
                                  Raise("process_transaction", pin_env.exc)]
                /\ UNCHANGED posts
           ELSE /\ Len(posts) < MaxPosts
                /\ posts' = Append(posts,
                       [url_tail |-> "/charges", payload |-> ChargePayload(obj[c]),
                        by |-> c, pk |-> obj[c].id])
                /\ pc' = [pc EXCEPT ![c] = "posted"]
                /\ UNCHANGED result
        /\ UNCHANGED <<active, obj, tx_table, othervars>>

\* process_transaction, from the gateway's answer to its return.
ProcessResponse(c, text) ==
    LET pair == pin_post(text)
        it   == InterpretCharge(obj[c], pair[1], pair[2])
        sv   == PinTransaction_save(it.self)
    IN  /\ c \in active
        /\ pc[c] = "posted"
        /\ pc' = [pc EXCEPT ![c] = "idle"]
        /\ IF it.exc # None
           THEN /\ obj' = [obj EXCEPT ![c] = it.self]
                /\ result' = [result EXCEPT ![c] =
                                  Raise("process_transaction", it.exc)]
                /\ UNCHANGED tx_table
           ELSE IF sv.exc # None
           THEN /\ obj' = [obj EXCEPT ![c] = sv.self]
                /\ result' = [result EXCEPT ![c] =
                                  Raise("process_transaction", sv.exc)]
                /\ UNCHANGED tx_table
           ELSE /\ tx_table' = TableAfterSave(tx_table, sv.self)
                /\ obj' = [obj EXCEPT ![c] = sv.self]
                /\ result' = [result EXCEPT ![c] =
                       Return("process_transaction", sv.self.pin_response)]
        /\ UNCHANGED <<active, posts, othervars>>

\* c's process dies or drops its instance: the in-memory instance is gone,
\* the stored rows stay.
Crash(c) ==
    /\ c \in active
    /\ pc[c] # "none"
    /\ pc' = [pc EXCEPT ![c] = "none"]
    /\ obj' = [obj EXCEPT ![c] = BlankTx]
    /\ result' = [result EXCEPT ![c] = NoResult]
    /\ UNCHANGED <<active, tx_table, posts, othervars>>

InitCommon ==
    /\ pc = [c \in Callers |-> "none"]
    /\ obj = [c \in Callers |-> BlankTx]
    /\ result = [c \in Callers |-> NoResult]
    /\ tx_table = << >>
    /\ posts = << >>
    /\ puts = << >>
    /\ customers = << Customer1 >>
    /\ bank_accounts = << >>
    /\ recipients = << >>
    /\ transfers = << >>
    /\ outcome = NoResult

\* One caller: the code is used from one thread of control.
Init == InitCommon /\ active = {1}

Next ==
    \/ \E c \in Callers, kw \in TransactionArgs : New(c, kw)
    \/ \E c \in Callers, pk \in 1..MaxTx : Load(c, pk)
    \/ \E c \in Callers : Save(c)
    \/ \E c \in Callers : ProcessBegin(c)
    \/ \E c \in Callers : ProcessPost(c)
    \/ \E c \in Callers, text \in ChargeBodies : ProcessResponse(c, text)
    \/ \E c \in Callers : Crash(c)

Spec == Init /\ [][Next]_vars

\* Two callers, each with its own instance: two requests or workers of a
\* deployment handling the same stored record.
InitRace == InitCommon /\ active = Callers

\* The constructor arguments of the two callers: a record that passes save.
RaceArgs ==
    { [card_token |-> "card_1", customer_token |-> NoCustomer,
       environment |-> "test", amount |-> 19990] }

\* The answers the gateway gives the two callers: a success and a body that
\* is no JSON.
RaceBodies == {"ok_fees_250", "<html>502</html>"}

NextRace ==
    \/ \E c \in Callers, kw \in RaceArgs : New(c, kw)
    \/ \E c \in Callers, pk \in 1..MaxTx : Load(c, pk)
    \/ \E c \in Callers : Save(c)
    \/ \E c \in Callers : ProcessBegin(c)
    \/ \E c \in Callers : ProcessPost(c)
    \/ \E c \in Callers, text \in RaceBodies : ProcessResponse(c, text)
    \/ \E c \in Callers : Crash(c)

SpecRace == InitRace /\ [][NextRace]_vars

(***************************************************************************)
(* Recipients and transfers.                                               *)
(***************************************************************************)
MaxCalls == 3

\* int(text) for the digit strings the gateway sends: the conversion an
\* IntegerField column applies to the value it is given.
IntOfStr(text) ==
    CASE text = "123456" -> 123456
      [] text = "012345" -> 12345

RecipientOk(bsb, bank_name) ==
    [response |->
        [token |-> "rp_1", name |-> "Mr Roland Robot",
         email |-> "roland@pin.net.au",
         bank_account |->
            [token |-> "ba_1", name |-> "Mr Roland Robot", bsb |-> bsb,
             number |-> "XXXXXX321", bank_name |-> bank_name,
             branch |-> "Perth"]]]

TransferOk(status, amount) ==
    [response |-> [token |-> "tfer_1", status |-> status, currency |-> "AUD",
                   description |-> "Earnings for may", amount |-> amount]]

RecipientBodies == {"rp_ok_123456", "rp_ok_012345", "rp_err", "<html>502</html>"}

TransferBodies == {"tfer_ok_succeeded", "tfer_ok_pending", "tfer_err",
                   "<html>502</html>"}

\* response.json() of the recipient and transfer bodies.
PayoutJsonOf(text) ==
    CASE text = "rp_ok_123456" -> RecipientOk("123456", "Bank of Australia")
      [] text = "rp_ok_012345" -> RecipientOk("012345", "")
      [] text = "rp_err" ->
            [error |-> "invalid_resource",
             error_description |-> "One or more parameters were invalid"]
      [] text = "tfer_ok_succeeded" -> TransferOk("succeeded", 400)
      [] text = "tfer_ok_pending" -> TransferOk("pending", 1000)
      [] text = "tfer_err" ->
            [error |-> "insufficient_pin_balance",
             error_description |-> "Insufficient Pin balance"]
      [] OTHER -> NoJson

payout_post(text) == <<[text |-> text], PayoutJsonOf(text)>>

\* response_json['response']: the exception the subscript raises, if any.
ResponseOf(response_json) ==
    IF response_json = NoJson
    THEN [exc |-> "TypeError", data |-> None]
    ELSE IF "response" \notin DOMAIN response_json
    THEN [exc |-> "KeyError", data |-> None]
    ELSE [exc |-> None, data |-> response_json.response]

\* The BankAccount row create_with_bank_account creates from the response.
BankAccountRow(data, env_name, pk) ==
    [id |-> pk,
     bank_name |-> data.bank_account.bank_name,
     branch |-> data.bank_account.branch,
     bsb |-> IntOfStr(data.bank_account.bsb),
     name |-> data.bank_account.name,
     number |-> data.bank_account.number,
     token |-> data.bank_account.token,
     environment |-> env_name]

\* The PinRecipient row create_with_bank_account creates from the response.
RecipientRow(data, bank_account_pk, env_name, pk) ==
    [id |-> pk, token |-> data.token, email |-> data.email,
     name |-> data.name, bank_account |-> bank_account_pk,
     environment |-> env_name]

\* PinRecipient.create_with_bank_account(email, account_name, bsb, number,
\* name), the gateway answering with body text.
CreateWithBankAccount(kw, text) ==
    LET pin_env == PinEnvironment("")
        payload == [email |-> kw.email, name |-> kw.name,
                    bank_account_name |-> kw.account_name,
                    bank_account_bsb |-> kw.bsb,
                    bank_account_number |-> kw.number]
        pair    == payout_post(text)
        rs      == ResponseOf(pair[2])
        ba_pk   == Len(bank_accounts) + 1
        rp_pk   == Len(recipients) + 1
    IN  /\ Len(posts) < MaxCalls
        /\ posts' = Append(posts, [url_tail |-> "/recipients",
                                   payload |-> payload, answer |-> text])
        /\ IF rs.exc # None
           THEN /\ outcome' = Raise("create_with_bank_account", rs.exc)
                /\ UNCHANGED <<bank_accounts, recipients>>
           ELSE /\ bank_accounts' = Append(bank_accounts,
                       BankAccountRow(rs.data, pin_env.name, ba_pk))
                /\ recipients' = Append(recipients,
                       RecipientRow(rs.data, ba_pk, pin_env.name, rp_pk))
                /\ outcome' = Return("create_with_bank_account", rp_pk)
        /\ UNCHANGED <<txvars, puts, customers, transfers>>

\* A send_new that reads the response with defaults instead of subscripts.
TransferFromResponse_Lenient(response, response_json, recipient_pk, pk) ==
    LET data == IF response_json = NoJson THEN [none_value |-> TRUE]
                ELSE DictGet(response_json, "response", response_json)
    IN  [exc |-> None,
         row |-> [id |-> pk, transfer_token |-> DictGet(data, "token", None),
                  status |-> DictGet(data, "status", None),
                  currency |-> DictGet(data, "currency", None),
                  description |-> DictGet(data, "description", None),
                  amount |-> DictGet(data, "amount", 0),
                  recipient |-> recipient_pk,
                  pin_response_text |-> response.text]]

\* The PinTransfer row send_new creates, or the exception it raises.
TransferFromResponse(response, response_json, recipient_pk, pk) ==
    LET rs == ResponseOf(response_json)
    IN  IF rs.exc # None
        THEN [exc |-> rs.exc, row |-> None]
        ELSE [exc |-> None,
              row |-> [id |-> pk, transfer_token |-> rs.data.token,
                       status |-> rs.data.status,
                       currency |-> rs.data.currency,
                       description |-> rs.data.description,
                       amount |-> rs.data.amount,
                       recipient |-> recipient_pk,
                       pin_response_text |-> response.text]]

\* PinTransfer.send_new(amount, description, recipient, currency), the
\* gateway answering with body text.
SendNew(amount, recipient_pk, text) ==
    LET payload == [amount |-> amount, description |-> "Earnings for may",
                    recipient |-> recipients[recipient_pk].token,
                    currency |-> "AUD"]
        pair    == payout_post(text)
        made    == TransferFromResponse(pair[1], pair[2], recipient_pk,
                                        Len(transfers) + 1)
    IN  /\ recipient_pk \in 1..Len(recipients)
        /\ Len(posts) < MaxCalls
        /\ posts' = Append(posts, [url_tail |-> "/transfers",
                                   payload |-> payload, answer |-> text])
        /\ IF made.exc # None
           THEN /\ outcome' = Raise("send_new", made.exc)
                /\ UNCHANGED transfers
           ELSE /\ transfers' = Append(transfers, made.row)
                /\ outcome' = Return("send_new", made.row.id)
        /\ UNCHANGED <<txvars, puts, customers, bank_accounts, recipients>>

RecipientArgs ==
    { [email |-> "roland@pin.net.au", name |-> "Mr Roland Robot",
       account_name |-> "Mr Roland Robot", bsb |-> "123456",
       number |-> "987654321"] }

NextPayout ==
    \/ \E kw \in RecipientArgs, text \in RecipientBodies :
           CreateWithBankAccount(kw, text)
    \/ \E amount \in {400, 1000}, pk \in 1..MaxCalls, text \in TransferBodies :
           SendNew(amount, pk, text)

SpecPayout == Init /\ [][NextPayout]_vars

(***************************************************************************)
(* Customers.                                                              *)
(***************************************************************************)
MaxCustomers == 3

CustomerBodies == {"cus_ok", "cus_err", "<html>502</html>"}

\* response.json() of the customer bodies.
CustomerJsonOf(text) ==
    CASE text = "cus_ok" ->
            [response |-> [token |-> "cus_1", email |-> "roland@pin.net.au",
                           card |-> CardJson]]
      [] text = "cus_err" ->
            [error |-> "invalid_resource",
             error_description |-> "One or more parameters were invalid"]
      [] OTHER -> NoJson

\* pin_env.pin_put(url_tail, payload): the pair (response, response_json).
pin_put(text) == <<[text |-> text], CustomerJsonOf(text)>>

\* CustomerTokenAbstract.save: the row Model.save is given.
CustomerToken_save(self) ==
    IF ~Truthy(self.environment)
    THEN [self EXCEPT !.environment = PIN_DEFAULT_ENVIRONMENT]
    ELSE self

\* The names CustomerTokenAbstract defines with @property and no setter.
ReadOnlyProperties ==
    {"primary_card", "first_card", "card_type", "card_number", "card_name"}

\* self.<name> = value
SetAttr(self, name, value) ==
    IF name \in ReadOnlyProperties
    THEN [exc |-> "AttributeError", self |-> self]
    ELSE [exc |-> None, self |-> (name :> value) @@ self]

\* The template of update_card's url_tail.
CustomerUrlTemplate == [literal |-> "/customers/", field |-> 1]

\* CustomerTokenAbstract.update_card(card_token) on instance self, the
\* gateway answering a PUT with body text: the exception raised (None when
\* the method returns), the PUTs issued and the instance handed to save.
UpdateCardRun(self, card_token, text) ==
    LET pin_env  == PinEnvironment(self.environment)
        payload  == [card_token |-> card_token]
        url_tail == StrFormat(CustomerUrlTemplate, <<self.token>>)
        put      == [url_tail |-> url_tail.value, payload |-> payload,
                     answer |-> text]
        rs       == ResponseOf(pin_put(text)[2])
        s1       == SetAttr(self, "card_number", rs.data.card.display_number)
        s2       == SetAttr(s1.self, "card_type", rs.data.card.scheme)
        s3       == SetAttr(s2.self, "card_name", rs.data.card.name)
        quit(exc, sent) == [exc |-> exc, puts |-> sent, saved |-> FALSE,
                            self |-> self]
    IN  IF pin_env.exc # None THEN quit(pin_env.exc, << >>)
        ELSE IF url_tail.exc # None THEN quit(url_tail.exc, << >>)
        ELSE IF rs.exc # None THEN quit(rs.exc, <<put>>)
        ELSE IF s1.exc # None THEN quit(s1.exc, <<put>>)
        ELSE IF s2.exc # None THEN quit(s2.exc, <<put>>)
        ELSE IF s3.exc # None THEN quit(s3.exc, <<put>>)
        ELSE [exc |-> None, puts |-> <<put>>, saved |-> TRUE,
              self |-> CustomerToken_save(s3.self)]

\* The effect of a run of update_card on the stored rows and the gateway.
UpdateCardEffect(pk, run) ==
    /\ puts' = puts \o run.puts
    /\ customers' = IF run.saved
                    THEN [customers EXCEPT ![pk] = run.self]
                    ELSE customers

\* customer.update_card(card_token), customer being the stored row pk.
UpdateCard(pk, card_token, text) ==
    LET run == UpdateCardRun(customers[pk], card_token, text)
    IN  /\ pk \in 1..Len(customers)
        /\ UpdateCardEffect(pk, run)
        /\ outcome' = [op |-> "update_card",
                       kind |-> IF run.exc # None THEN "raise" ELSE "return",
                       value |-> run.exc, self |-> pk,
                       card_token |-> card_token]
        /\ UNCHANGED <<txvars, posts, bank_accounts, recipients, transfers>>

\* customer.new_card_token(card_token): update_card, then return True.
NewCardToken(pk, card_token, text) ==
    LET run == UpdateCardRun(customers[pk], card_token, text)
    IN  /\ pk \in 1..Len(customers)
        /\ UpdateCardEffect(pk, run)
        /\ outcome' = [op |-> "new_card_token",
                       kind |-> IF run.exc # None THEN "raise" ELSE "return",
                       value |-> IF run.exc # None THEN run.exc ELSE "True",
                       self |-> pk, card_token |-> card_token]
        /\ UNCHANGED <<txvars, posts, bank_accounts, recipients, transfers>>

\* CustomerToken(...).save() of a new customer.
SaveCustomer(kw) ==
    LET pk == Len(customers) + 1
    IN  /\ Len(customers) < MaxCustomers
        /\ customers' = Append(customers,
               CustomerToken_save([id |-> pk, environment |-> kw.environment,
                                   token |-> kw.token, active |-> kw.active,
                                   cards |-> {}]))
        /\ outcome' = [op |-> "save", kind |-> "return", value |-> None,
                       self |-> pk, card_token |-> None]
        /\ UNCHANGED <<txvars, posts, puts, bank_accounts, recipients,
                       transfers>>

CustomerArgs ==
    [environment : {"", "test", "staging"}, token : {"cus_2", "cus_3"},
     active : BOOLEAN]

NextCustomer ==
    \/ \E kw \in CustomerArgs : SaveCustomer(kw)
    \/ \E pk \in 1..MaxCustomers, card_token \in {"card_1", "card_2"},
          text \in CustomerBodies : UpdateCard(pk, card_token, text)
    \/ \E pk \in 1..MaxCustomers, card_token \in {"card_1", "card_2"},
          text \in CustomerBodies : NewCardToken(pk, card_token, text)

SpecCustomer == Init /\ [][NextCustomer]_vars

(***************************************************************************)
(* Properties.                                                             *)
(***************************************************************************)
ProcessOp == "process_transaction"

\* The charge POSTs issued for stored record pk.
PostsFor(pk) == {i \in DOMAIN posts : posts[i].url_tail = "/charges"
                                      /\ posts[i].pk = pk}

\* Claim C1.  A call of process_transaction on an instance whose processed
\* flag is already true issues no POST, returns None and leaves the
\* instance and the stored rows as they are; a process_transaction step
\* never turns a stored processed flag from true to false; and no stored
\* record ever has more than one charge POST.
C1_ProcessedIsNoOp ==
    /\ [][\A c \in active :
            (pc[c] = "idle" /\ obj[c].processed /\ ProcessBegin(c))
            => /\ posts' = posts
               /\ result'[c] = Return(ProcessOp, None)
               /\ obj'[c] = obj[c]
               /\ pc'[c] = "idle"
               /\ tx_table' = tx_table]_vars
    /\ [][\A c \in active :
            (ProcessBegin(c) \/ ProcessPost(c)
             \/ \E text \in ChargeBodies : ProcessResponse(c, text))
            => \A pk \in DOMAIN tx_table :
                   tx_table[pk].processed => tx_table'[pk].processed]_vars
    /\ [](\A pk \in DOMAIN tx_table : Cardinality(PostsFor(pk)) <= 1)

\* A second call on a charged record has returned None: the record shows a
\* successful charge, and the call just made returned nothing.
C1_Witness ==
    \E c \in active :
        /\ result[c] = Return(ProcessOp, None)
        /\ obj[c].processed /\ obj[c].succeeded
        /\ obj[c].id # 0 /\ Cardinality(PostsFor(obj[c].id)) = 1

\* Claim C2.  save() on an instance with neither card_token nor
\* customer_token, or with both, raises PinError and writes nothing: the
\* stored rows are unchanged, and no stored row has neither or both.
C2_SaveRefusesBadTokens ==
    /\ [][\A c \in active :
            (Save(c) /\ (Truthy(obj[c].card_token)
                         <=> obj[c].customer_token # NoCustomer))
            => /\ result'[c] = Raise("save", "PinError")
               /\ tx_table' = tx_table]_vars
    /\ [](\A pk \in DOMAIN tx_table :
            Truthy(tx_table[pk].card_token)
            <=> tx_table[pk].customer_token = NoCustomer)

\* save() has raised PinError on an instance holding both tokens, and
\* nothing was stored for it.
C2_Witness ==
    \E c \in active :
        /\ result[c] = Raise("save", "PinError")
        /\ Truthy(obj[c].card_token) /\ obj[c].customer_token # NoCustomer
        /\ obj[c].id = 0

\* As C2_Witness, for an instance holding neither token.
C2_WitnessNeither ==
    \E c \in active :
        /\ result[c] = Raise("save", "PinError")
        /\ ~Truthy(obj[c].card_token) /\ obj[c].customer_token = NoCustomer
        /\ obj[c].id = 0

\* The gateway's answer text is a failure: no JSON, or JSON with "error".
IsGatewayFailure(text) ==
    text # None /\ (JsonOf(text) = NoJson \/ "error" \in DOMAIN JsonOf(text))

\* The gateway's answer text is a success: JSON without "error".
IsGatewaySuccess(text) ==
    text # None /\ JsonOf(text) # NoJson /\ "error" \notin DOMAIN JsonOf(text)

\* Caller c's call of process_transaction is over and its instance holds
\* the gateway's answer.
Answered(c) ==
    /\ pc[c] = "idle"
    /\ result[c].op = ProcessOp
    /\ obj[c].pin_response_text # None

\* Claim C3.  Whatever failure the gateway answers with (no JSON, or any
\* JSON with an "error" key), process_transaction returns without raising
\* and the stored record has processed = true, succeeded = false and a
\* non-empty pin_response.
C3_GatewayFailureRecorded ==
    \A c \in active :
        (Answered(c) /\ IsGatewayFailure(obj[c].pin_response_text))
        => /\ result[c].kind = "return"
           /\ tx_table[obj[c].id].processed
           /\ ~tx_table[obj[c].id].succeeded
           /\ Truthy(tx_table[obj[c].id].pin_response)

\* The message claim C4 names for an error body: messages[0].message when
\* it is there, error_description otherwise.
ClaimedMessage(json) ==
    IF /\ "messages" \in DOMAIN json
       /\ Len(json.messages) > 0
       /\ "message" \in DOMAIN json.messages[1]
    THEN json.messages[1].message
    ELSE json.error_description

\* Claim C4.  After an answer whose JSON has an "error" key (and an
\* error_description), the stored record has succeeded = false,
\* pin_response = "Failure: " followed by messages[0].message when that is
\* present and by error_description otherwise, and transaction_token = the
\* answer's charge_token when it gives one.
C4_ErrorMessageRecorded ==
    \A c \in active :
        LET json == JsonOf(obj[c].pin_response_text)
            row  == tx_table[obj[c].id]
        IN  (/\ Answered(c)
             /\ "error" \in DOMAIN json
             /\ "error_description" \in DOMAIN json)
            => /\ ~row.succeeded
               /\ row.pin_response = "Failure: " \o ClaimedMessage(json)
               /\ ("charge_token" \in DOMAIN json
                   => row.transaction_token = json.charge_token)

\* What does hold of the error branch: the message comes from
\* messages[0].message when the body has a messages key whose first entry
\* has a message, and from error_description when it has no messages key.
C4_OnWireContractBodies ==
    \A c \in active :
        LET json == JsonOf(obj[c].pin_response_text)
            row  == tx_table[obj[c].id]
        IN  (/\ Answered(c)
             /\ "error" \in DOMAIN json
             /\ "error_description" \in DOMAIN json
             /\ ("messages" \in DOMAIN json
                 => /\ Len(json.messages) > 0
                    /\ "message" \in DOMAIN json.messages[1]))
            => /\ result[c].kind = "return"
               /\ ~row.succeeded
               /\ row.pin_response = "Failure: " \o ClaimedMessage(json)
               /\ row.transaction_token = DictGet(json, "charge_token", None)

\* Claim C5.  After an answer whose JSON has no "error" key,
\* process_transaction returns and the stored record has succeeded = true,
\* the transaction_token and status message of the answer, and fees equal
\* to total_fees / 100 in dollars (total_fees = 250 gives 2.50).
C5_SuccessRecorded ==
    /\ \A c \in active :
           (Answered(c) /\ IsGatewaySuccess(obj[c].pin_response_text))
           => /\ result[c].kind = "return"
              /\ obj[c].id \in DOMAIN tx_table
              /\ tx_table[obj[c].id].pin_response_text
                     = obj[c].pin_response_text
    /\ \A pk \in DOMAIN tx_table :
           LET row  == tx_table[pk]
               data == JsonOf(row.pin_response_text).response
           IN  IsGatewaySuccess(row.pin_response_text)
               => /\ row.processed /\ row.succeeded
                  /\ row.transaction_token = data.token
                  /\ row.pin_response = data.status_message
                  /\ row.fees * 100 = data.total_fees * DecScale
                  /\ (data.total_fees = 250
                      => row.fees = 2 * DecScale + DecScale \div 2)

\* A charge answered with total_fees = 250 is stored with fees 2.50.
C5_Witness ==
    \E c \in active :
        /\ Answered(c)
        /\ obj[c].pin_response_text = "ok_fees_250"
        /\ tx_table[obj[c].id].succeeded
        /\ tx_table[obj[c].id].fees = 2 * DecScale + DecScale \div 2

\* The last POST caller c issued.
LastPostBy(c) ==
    posts[CHOOSE i \in DOMAIN posts :
              /\ posts[i].by = c
              /\ \A j \in DOMAIN posts : posts[j].by = c => j <= i]

\* The amount has at most two decimal places.
TwoPlaces(amount) == amount % (DecScale \div 100) = 0

\* Claim C6.  The amount of a charge payload is the integer number of minor
\* units: amount x 100 exactly for an amount of two decimal places (19.99
\* gives 1999), and amount x 100 with the fraction cut off otherwise; the
\* stored amount of a two-place amount is that amount, in dollars.
C6_PayloadAmountMinorUnits ==
    \A c \in active :
        /\ pc[c] = "posted"
           => LET sent == LastPostBy(c).payload.amount
              IN  /\ TwoPlaces(obj[c].amount)
                     => sent * DecScale = obj[c].amount * 100
                  /\ sent * DecScale <= obj[c].amount * 100
                  /\ obj[c].amount * 100 < (sent + 1) * DecScale
        /\ (obj[c].id # 0 /\ TwoPlaces(obj[c].amount))
           => tx_table[obj[c].id].amount = obj[c].amount

\* A charge of 19.99 dollars is out with payload amount 1999, the stored
\* amount still 19.99.
C6_Witness ==
    \E c \in active :
        /\ pc[c] = "posted"
        /\ obj[c].amount = 19 * DecScale + 990
        /\ LastPostBy(c).payload.amount = 1999
        /\ tx_table[obj[c].id].amount = 19 * DecScale + 990

\* A charge of 19.999 dollars is out with payload amount 1999.
C6_WitnessTruncated ==
    \E c \in active :
        /\ pc[c] = "posted"
        /\ obj[c].amount = 19 * DecScale + 999
        /\ LastPostBy(c).payload.amount = 1999

\* The gateway's answer to a transfer is a success: JSON with "response".
IsTransferSuccess(text) ==
    PayoutJsonOf(text) # NoJson /\ "response" \in DOMAIN PayoutJsonOf(text)

\* The transfer submissions the gateway answered with a success.
SuccessfulTransferPosts ==
    {i \in DOMAIN posts : /\ posts[i].url_tail = "/transfers"
                          /\ IsTransferSuccess(posts[i].answer)}

\* Claim C7.  send_new creates one PinTransfer row when the gateway answers
\* with a success and none, raising to the caller, when it answers with an
\* error or with no JSON: the stored PinTransfer rows are as many as the
\* successful submissions.
C7_TransferRowsAreSuccesses ==
    /\ Len(transfers) = Cardinality(SuccessfulTransferPosts)
    /\ outcome.op = "send_new"
       => IF IsTransferSuccess(posts[Len(posts)].answer)
          THEN /\ outcome.kind = "return"
               /\ outcome.value = Len(transfers)
               /\ transfers[Len(transfers)].pin_response_text
                      = posts[Len(posts)].answer
          ELSE outcome.kind = "raise"

\* After one successful submission, a submission the gateway refused has
\* raised and left the one row.
C7_Witness ==
    /\ outcome.op = "send_new" /\ outcome.kind = "raise"
    /\ outcome.value = "KeyError"
    /\ posts[Len(posts)].answer = "tfer_err"
    /\ Len(transfers) = 1

\* As C7_Witness, for an answer that is no JSON.
C7_WitnessNoJson ==
    /\ outcome.op = "send_new" /\ outcome.kind = "raise"
    /\ outcome.value = "TypeError"
    /\ Len(transfers) = 1

\* str(n) for the integers the bsb column holds.
StrOfInt(n) ==
    CASE n = 123456 -> "123456"
      [] n = 12345 -> "12345"

\* What create_with_bank_account does apart from the bsb column: one POST,
\* one BankAccount row and one PinRecipient row pointing at it, the text
\* fields as the gateway's answer gives them.
C8_RowsFromOneResponse ==
    /\ Len(bank_accounts) = Len(recipients)
    /\ Len(recipients) = Cardinality({i \in DOMAIN posts :
                             /\ posts[i].url_tail = "/recipients"
                             /\ IsTransferSuccess(posts[i].answer)})
    /\ \A pk \in DOMAIN recipients : recipients[pk].bank_account = pk
    /\ (outcome.op = "create_with_bank_account" /\ outcome.kind = "return")
       => LET rp   == recipients[outcome.value]
              ba   == bank_accounts[rp.bank_account]
              data == PayoutJsonOf(posts[Len(posts)].answer).response
          IN  /\ outcome.value = Len(recipients)
              /\ rp.token = data.token
              /\ rp.email = data.email
              /\ rp.name = data.name
              /\ ba.bank_name = data.bank_account.bank_name
              /\ ba.branch = data.bank_account.branch
              /\ ba.name = data.bank_account.name
              /\ ba.number = data.bank_account.number
              /\ ba.token = data.bank_account.token

\* Claim C8.  After create_with_bank_account returns, the new PinRecipient
\* row points at the new BankAccount row, and that row's bank_name, branch,
\* bsb, name, number and token are the values of the gateway's answer.
C8_BankAccountEqualsResponse ==
    (outcome.op = "create_with_bank_account" /\ outcome.kind = "return")
    => LET rp   == recipients[outcome.value]
           ba   == bank_accounts[rp.bank_account]
           data == PayoutJsonOf(posts[Len(posts)].answer).response
       IN  /\ rp.bank_account = Len(bank_accounts)
           /\ ba.bank_name = data.bank_account.bank_name
           /\ ba.branch = data.bank_account.branch
           /\ StrOfInt(ba.bsb) = data.bank_account.bsb
           /\ ba.name = data.bank_account.name
           /\ ba.number = data.bank_account.number
           /\ ba.token = data.bank_account.token

\* Claim C9.  update_card(card_token) on a customer of a configured
\* environment returns after a PUT to "/customers/<the customer's token>"
\* that carries the card token.
C9_UpdateCardPuts ==
    (/\ outcome.op = "update_card"
     /\ PinEnvironment(customers[outcome.self].environment).exc = None)
    => /\ outcome.kind = "return"
       /\ Len(puts) > 0
       /\ puts[Len(puts)].url_tail
              = "/customers/" \o customers[outcome.self].token
       /\ puts[Len(puts)].payload.card_token = outcome.card_token

\* What update_card does: it raises, issues no PUT and stores nothing.
C9_UpdateCardAlwaysRaises ==
    /\ puts = << >>
    /\ outcome.op \in {"update_card", "new_card_token"}
       => /\ outcome.kind = "raise"
          /\ outcome.value \in {"IndexError", "ConfigError"}

\* Claim C10.  When process_transaction issues the charge POST the stored
\* row already has processed = true; every record with a POST is stored as
\* processed; and a call of process_transaction on any instance of a record
\* that has had a POST (the same instance, or one reloaded from storage
\* after the caller crashed) returns None and issues no POST.
C10_MarkedBeforePost ==
    /\ [][\A c \in active :
            (ProcessPost(c) /\ posts' # posts)
            => /\ obj[c].id \in DOMAIN tx_table
               /\ tx_table[obj[c].id].processed]_vars
    /\ [](\A i \in DOMAIN posts :
            /\ posts[i].pk \in DOMAIN tx_table
            /\ tx_table[posts[i].pk].processed)
    /\ [][\A c \in active :
            (ProcessBegin(c) /\ obj[c].id # 0 /\ PostsFor(obj[c].id) # {})
            => /\ posts' = posts
               /\ pc'[c] = "idle"
               /\ result'[c] = Return(ProcessOp, None)]_vars

\* The caller crashed after the POST went out (the record holds no answer),
\* the record was reloaded, and process_transaction on it returned None:
\* the one POST is all there is.
C10_Witness ==
    \E c \in active :
        /\ result[c] = Return(ProcessOp, None)
        /\ obj[c].processed
        /\ obj[c].pin_response_text = None
        /\ obj[c].id # 0
        /\ Cardinality(PostsFor(obj[c].id)) = 1
        /\ obj[c] = tx_table[obj[c].id]

\* Claim C11.  The guard of process_transaction reads the flag of the
\* caller's own instance and nothing else: a caller whose instance says
\* processed = false passes the guard and goes on to the POST even when the
\* stored row of the same record already says processed = true, and its
\* POST goes out even when another caller has already issued a POST for the
\* same record.
C11_GuardReadsOnlyTheInstance ==
    /\ [][\A c \in Callers :
            (/\ ProcessBegin(c)
             /\ ~obj[c].processed
             /\ obj[c].id \in DOMAIN tx_table
             /\ tx_table[obj[c].id].processed)
            => /\ pc'[c] = "marked"
               /\ result'[c] = NoResult
               /\ obj'[c].processed]_vars
    /\ [][\A c \in Callers :
            (/\ ProcessPost(c)
             /\ PinEnvironment(obj[c].environment).exc = None
             /\ \E i \in PostsFor(obj[c].id) : posts[i].by # c)
            => /\ Len(posts') = Len(posts) + 1
               /\ posts'[Len(posts')].by = c
               /\ posts'[Len(posts')].pk = obj[c].id]_vars

\* Two callers hold instances of one stored record, both have passed the
\* guard and both have a charge POST for that record on the wire.
C11_Witness ==
    \E c \in active, d \in active :
        /\ c # d
        /\ obj[c].id # 0
        /\ obj[c].id = obj[d].id
        /\ pc[c] = "posted"
        /\ pc[d] = "posted"
        /\ \E i \in PostsFor(obj[c].id), j \in PostsFor(obj[c].id) :
              /\ posts[i].by = c
              /\ posts[j].by = d
              /\ posts[i].payload = posts[j].payload

\* The record fails one of save's checks: neither or both of card_token
\* and customer_token, or an environment name (the default one when the
\* record names none) absent from the configured environments.
FailsSaveCheck(self) ==
    \/ ~Truthy(self.card_token) /\ self.customer_token = NoCustomer
    \/ Truthy(self.card_token) /\ self.customer_token # NoCustomer
    \/ /\ Truthy(self.environment)
       /\ \A name \in DOMAIN PIN_ENVIRONMENTS : name # self.environment
    \/ /\ ~Truthy(self.environment)
       /\ \A name \in DOMAIN PIN_ENVIRONMENTS : name # PIN_DEFAULT_ENVIRONMENT

\* Claim C12.  A call of process_transaction on an unprocessed instance
\* that fails a save-time check raises PinError, issues no POST and stores
\* nothing; no caller is ever between the first save and the answer with
\* such an instance; and every stored row, and so the record of every
\* charge POST, passes the save-time checks.
C12_NoPostForInvalidRecord ==
    /\ [][\A c \in Callers :
            (ProcessBegin(c) /\ ~obj[c].processed /\ FailsSaveCheck(obj[c]))
            => /\ result'[c] = Raise(ProcessOp, "PinError")
               /\ pc'[c] = "idle"
               /\ posts' = posts
               /\ tx_table' = tx_table]_vars
    /\ [](\A c \in active :
            pc[c] \in {"marked", "posted"} => ~FailsSaveCheck(obj[c]))
    /\ [](\A pk \in DOMAIN tx_table : ~FailsSaveCheck(tx_table[pk]))
    /\ [](\A i \in DOMAIN posts :
            /\ posts[i].pk \in DOMAIN tx_table
            /\ ~FailsSaveCheck(tx_table[posts[i].pk]))

\* process_transaction has raised PinError on an instance that names an
\* environment that is not configured: the instance carries the flag, but
\* no row was stored for it and no POST went out.
C12_Witness ==
    \E c \in active :
        /\ result[c] = Raise(ProcessOp, "PinError")
        /\ obj[c].environment = "bogus"
        /\ obj[c].processed
        /\ obj[c].id = 0
        /\ tx_table = << >>
        /\ posts = << >>

\* As C12_Witness, for an instance holding both tokens and for one holding
\* neither.
C12_WitnessBoth ==
    \E c \in active :
        /\ result[c] = Raise(ProcessOp, "PinError")
        /\ Truthy(obj[c].card_token) /\ obj[c].customer_token # NoCustomer
        /\ obj[c].processed
        /\ obj[c].id = 0
        /\ posts = << >>

C12_WitnessNeither ==
    \E c \in active :
        /\ result[c] = Raise(ProcessOp, "PinError")
        /\ ~Truthy(obj[c].card_token) /\ obj[c].customer_token = NoCustomer
        /\ obj[c].processed
        /\ obj[c].id = 0
        /\ posts = << >>

====
